---------------------------- MODULE Spec2Model ----------------------------
(***************************************************************************)
(* Model of the prediction-market collection pipeline:                     *)
(*   src/data/kalshi.py      KalshiClient      (cursor pagination)         *)
(*   src/data/polymarket.py  PolymarketClient  (offset pagination)         *)
(*   src/main.py             main, fetch_kalshi, fetch_polymarket          *)
(*                                                                         *)
(*   src/utils.py            matching, fee and margin arithmetic, report   *)
(*                                                                         *)
(* The specifications share the variables:                                 *)
(*   Spec        main(): both venue runs under one asyncio.gather          *)
(*   SpecRun     one client's fetch_markets run on its own (either venue)  *)
(*   SpecRunFair SpecRun with the event loop's progress assumed            *)
(*   SpecMerge   two successive _save_markets calls on an empty snapshot   *)
(*   SpecFee     kalshi_fee applied to a price and a contract count        *)
(*   SpecMatch   find_similar_markets applied to a similarity matrix       *)
(*   SpecArb     calculate_arbitrage_opportunities and                     *)
(*               generate_arbitrage_report applied to a list of pairs      *)
(***************************************************************************)
EXTENDS Integers, Sequences, FiniteSets, TLC

VARIABLES
    max_concurrent,  \* fetch_markets(max_concurrent=...)
    venue,           \* what each venue holds: full pages, then a terminal page
    rate_limiter,    \* client -> its AsyncLimiter instance
    level,           \* AsyncLimiter instance -> bucket level
    acquired,        \* AsyncLimiter instance -> acquisitions so far (history)
    pc,              \* venue -> position of its collection run
    cursors,         \* Kalshi frontier (local `cursors` of fetch_markets)
    current_offset,  \* Polymarket frontier (local `current_offset`)
    all_markets,     \* venue -> records gathered so far (local `all_markets`)
    tasks,           \* venue -> the page fetches of the wave being gathered
    wave,            \* venue -> number of the wave being gathered (history)
    inflight,        \* venue -> HTTP requests issued and not yet answered
    requested,       \* venue -> every request issued, <<wave, index, arg>> (history)
    delivered,       \* venue -> requests answered with a page (history)
    failed,          \* venue -> requests that raised (history)
    disk,            \* venue -> persisted snapshot file
    saves,           \* venue -> log of _save_markets calls (history)
    ret,             \* venue -> value returned by fetch_markets
    wrote,           \* venue -> outcome of the snapshot write of this run
    mainPc,          \* position of main()
    step,            \* position of the utils.py call sequence being checked
    price_cents,     \* kalshi_fee: the price, in whole cents
    contracts,       \* kalshi_fee: num_contracts
    fee,             \* kalshi_fee: the value returned
    similarities,    \* find_similar_markets: the cosine similarity matrix
    similarity_threshold, \* find_similar_markets(similarity_threshold=...)
    similar_pairs,   \* the pairs found / handed to calculate_arbitrage_opportunities
    opportunities,   \* outcome of calculate_arbitrage_opportunities
    report           \* rows returned by generate_arbitrage_report

vars == <<max_concurrent, venue, rate_limiter, level, acquired, pc, cursors,
          current_offset, all_markets, tasks, wave, inflight, requested,
          delivered, failed, disk, saves, ret, wrote, mainPc, step,
          price_cents, contracts, fee, similarities, similarity_threshold,
          similar_pairs, opportunities, report>>

\* the collection pipeline's variables
runVars == <<max_concurrent, venue, rate_limiter, level, acquired, pc, cursors,
             current_offset, all_markets, tasks, wave, inflight, requested,
             delivered, failed, disk, saves, ret, wrote, mainPc>>

\* the variables of the utils.py functions
utilVars == <<step, price_cents, contracts, fee, similarities,
              similarity_threshold, similar_pairs, opportunities, report>>

(***************************************************************************)
(* Bounds of the model.                                                    *)
(***************************************************************************)
Limit == 2           \* page size (`limit`), scaled down
MaxPages == 2        \* most full pages a venue holds in SpecRun
MainPages == 1       \* most full pages a venue holds in Spec
MaxConcurrent == 2   \* largest max_concurrent tried
MaxRate == 1         \* AsyncLimiter max_rate, scaled down
MaxId == 2           \* identity keys 1..MaxId in SpecMerge
MaxX == 2            \* values of the other field in SpecMerge
MaxNew == 2          \* longest record list handed to _save_markets in SpecMerge
MaxCount == 2        \* contract counts 1..MaxCount in SpecFee
MaxMarkets == 2      \* most markets of a venue in SpecMatch
MaxPairs == 2        \* longest list of pairs in SpecArb

Venues == {"kalshi", "polymarket"}

NoCursor == 0        \* None / "" : the falsy cursor

Min(a, b) == IF a < b THEN a ELSE b

(***************************************************************************)
(* The venues (external collaborators).  A venue holds `full` full pages   *)
(* followed by one terminal page of `last` < Limit records (possibly       *)
(* empty).  Record k of a venue is [id |-> k, x |-> 1].                    *)
(***************************************************************************)
Total(v) == venue[v].full * Limit + venue[v].last

VenueRecords(v) == [k \in 1..Total(v) |-> [id |-> k, x |-> 1]]

\* The records a page request returns: Kalshi's cursor c names page c
\* (NoCursor the first), Polymarket's offset o the records after the o-th.
Page(v, arg) ==
    LET first == IF v = "kalshi" THEN arg * Limit + 1 ELSE arg + 1
        last  == Min(first + Limit - 1, Total(v))
    IN  SubSeq(VenueRecords(v), first, last)

\* data.get("cursor"): a continuation while pages remain, none on the last.
NextCursor(c) == IF c < venue["kalshi"].full THEN c + 1 ELSE NoCursor

(***************************************************************************)
(* MergeStore: _save_markets.  Records are schema-homogeneous (every       *)
(* record carries id and x), so pl.DataFrame(...).to_dicts() returns the   *)
(* rows it was given.                                                      *)
(***************************************************************************)
\* mutant of KalshiKey: the subset argument dropped
KalshiKeyWholeRow(r) == r

\* df.unique(subset=['ticker'], maintain_order=True): the key of a row
KalshiKey(r) == r.id

\* df.unique(maintain_order=True): no subset, so the whole row is the key
PolymarketKey(r) == r

DedupKey(v, r) == IF v = "kalshi" THEN KalshiKey(r) ELSE PolymarketKey(r)

\* mutant of KeepRow: the unique() call dropped
KeepRowAlways(v, s, i) == TRUE

\* unique(..., maintain_order=True): a row is kept when no earlier row has its
\* key (with maintain_order=True polars takes the first row of each group, for
\* the default keep strategy too)
KeepRow(v, s, i) == \A j \in 1..(i - 1) : DedupKey(v, s[j]) # DedupKey(v, s[i])

Unique(v, s) == SelectSeq([i \in 1..Len(s) |-> <<i, s[i]>>],
                          LAMBDA p : KeepRow(v, s, p[1]))

ToDicts(ps) == [i \in 1..Len(ps) |-> ps[i][2]]

\* all_markets = existing_markets + markets; unique; to_dicts
Merge(v, existing, markets) == ToDicts(Unique(v, existing \o markets))

\* self._load_existing_markets(): the persisted snapshot (not in src/)
LoadExisting(v) == disk[v]

(***************************************************************************)
(* CollectionDriver: the body of the while loop after the gather.          *)
(***************************************************************************)
Task(arg) == [arg |-> arg, st |-> "limiter"]

MkTasks(args) == [i \in 1..Len(args) |-> Task(args[i])]

\* mutant of GatherDone: the wave is left at the first completed fetch
GatherAnyDone(ts) == \E i \in 1..Len(ts) : ts[i].st \in {"ok", "err"}

\* asyncio.gather(*tasks, return_exceptions=True) returns when every task has
\* a result or an exception
GatherDone(ts) == \A i \in 1..Len(ts) : ts[i].st \in {"ok", "err"}

\* isinstance(result, tuple) / isinstance(result, list): the task returned
Succeeded(t) == t.st = "ok"

\* new_markets: the pages of the tasks that returned, in task order
RECURSIVE WaveRecords(_, _)
WaveRecords(v, ts) ==
    IF ts = <<>> THEN <<>>
    ELSE (IF Succeeded(Head(ts)) THEN Page(v, Head(ts).arg) ELSE <<>>)
         \o WaveRecords(v, Tail(ts))

\* mutant of AppendCursor: the `if next_cursor` test dropped
AppendCursorAlways(cs, c) == Append(cs, c)

\* if next_cursor: cursors.append(next_cursor)
AppendCursor(cs, c) == IF c # NoCursor THEN Append(cs, c) ELSE cs

RECURSIVE WaveCursors(_, _)
WaveCursors(cs, ts) ==
    IF ts = <<>> THEN cs
    ELSE WaveCursors(IF Succeeded(Head(ts))
                     THEN AppendCursor(cs, NextCursor(Head(ts).arg))
                     ELSE cs,
                     Tail(ts))

\* any(isinstance(r, list) and len(r) < limit for r in results)
ShortPage(ts) ==
    \E i \in 1..Len(ts) :
        Succeeded(ts[i]) /\ Len(Page("polymarket", ts[i].arg)) < Limit

\* has_more (and, for Kalshi, `cursors`) at the end of the loop body
KalshiHasMore(ts, cs) ==
    WaveRecords("kalshi", ts) # <<>> /\ WaveCursors(cs, ts) # <<>>

\* mutant of PolymarketHasMore: the short-page test dropped
PolymarketHasMoreIgnoringShort(ts) == WaveRecords("polymarket", ts) # <<>>

PolymarketHasMore(ts) ==
    WaveRecords("polymarket", ts) # <<>> /\ ~ShortPage(ts)

HasMore(v) ==
    IF v = "kalshi" THEN KalshiHasMore(tasks[v], cursors)
    ELSE PolymarketHasMore(tasks[v])

\* current_cursors = cursors[:max_concurrent]; cursors = cursors[max_concurrent:]
TakeCursors(cs) == SubSeq(cs, 1, Min(max_concurrent, Len(cs)))

\* mutant of RestCursors: the taken cursors are left on the frontier
RestCursorsKept(cs) == cs

RestCursors(cs) == SubSeq(cs, Min(max_concurrent, Len(cs)) + 1, Len(cs))

\* for i in range(max_concurrent): offset = current_offset + (i * limit)
WaveOffsets(off) == [i \in 1..max_concurrent |-> off + (i - 1) * Limit]


\* mutant of FirstWave: Kalshi opens with max_concurrent fetches, as Polymarket
FirstWaveSpeculative(v) == MkTasks(WaveOffsets(0))

FirstWave(v) ==
    IF v = "kalshi" THEN MkTasks(TakeCursors(<<NoCursor>>))
    ELSE MkTasks(WaveOffsets(0))

(***************************************************************************)
(* Initial states.                                                         *)
(***************************************************************************)
\* mutant of NewLimiter: one limiter shared by both clients
NewLimiterShared(v) == "kalshi"

\* AsyncLimiter(requests_per_second) in each client's __init__: an instance
\* of the client's own
NewLimiter(v) == v

VenueData(pages) == [full : 0..pages, last : 0..(Limit - 1)]

\* under main() the venues tried end in a short, non-empty page
MainVenueData == [full : 0..MainPages, last : {Limit - 1}]

NoData == [full |-> 0, last |-> 0]

\* A snapshot file left by earlier runs, when the records had x = 2 and
\* record 2 was listed first
OldSnapshots ==
    {<<>>, <<[id |-> 1, x |-> 2]>>, <<[id |-> 2, x |-> 2], [id |-> 1, x |-> 2]>>}

(***************************************************************************)
(* Python float arithmetic (IEEE-754 binary64, round to nearest, ties to   *)
(* even).  A natural number is a little-endian sequence of limbs; a float  *)
(* is (-1)^neg * m * 2^e.  The prices, fees and costs of utils.py are      *)
(* never negative; only a subtraction yields a negative float.             *)
(***************************************************************************)
LimbBits == 14       \* bits per limb of a long natural number

Base == 16384        \* 2^LimbBits

Precision == 53      \* significand bits of a Python float

DivBits == 64        \* bits of a dividend once it is scaled for a division

Max(a, b) == IF a < b THEN b ELSE a

Limb(a, i) == IF i \in 1..Len(a) THEN a[i] ELSE 0

\* index of the highest non-zero limb, 0 for the number 0
Top(a) ==
    LET S == {i \in DOMAIN a : a[i] # 0}
    IN  IF S = {} THEN 0 ELSE CHOOSE m \in S : \A k \in S : k <= m

Trim(a) == SubSeq(a, 1, Top(a))

\* the limbs of a small natural n
Limbs(n) == Trim(<<n % Base, (n \div Base) % Base, n \div (Base * Base)>>)

\* the small natural a
ToInt(a) == Limb(a, 1) + Base * Limb(a, 2) + Base * Base * Limb(a, 3)

\* a + b: limb i receives a carry when a lower limb overflows and every limb
\* in between passes the carry on
Add(a, b) ==
    LET d(i)     == Limb(a, i) + Limb(b, i)
        carry(i) == \E j \in 1..(i - 1) :
                        /\ d(j) >= Base
                        /\ \A k \in (j + 1)..(i - 1) : d(k) >= Base - 1
    IN  Trim([i \in 1..(Max(Len(a), Len(b)) + 1) |->
                 (d(i) + (IF carry(i) THEN 1 ELSE 0)) % Base])

\* a - b, for a >= b
Sub(a, b) ==
    LET borrow(i) == \E j \in 1..(i - 1) :
                         /\ Limb(a, j) < Limb(b, j)
                         /\ \A k \in (j + 1)..(i - 1) : Limb(a, k) <= Limb(b, k)
    IN  Trim([i \in 1..Len(a) |->
                 (Base + Limb(a, i) - Limb(b, i)
                     - (IF borrow(i) THEN 1 ELSE 0)) % Base])

Less(a, b) ==
    \E i \in 1..Max(Len(a), Len(b)) :
        /\ Limb(a, i) < Limb(b, i)
        /\ \A k \in (i + 1)..Max(Len(a), Len(b)) : Limb(a, k) = Limb(b, k)

\* the number whose limb i holds cols[i], any natural below 8 * Base^2
Carried(cols) ==
    Add(Add([i \in DOMAIN cols |-> cols[i] % Base],
            <<0>> \o [i \in DOMAIN cols |-> (cols[i] \div Base) % Base]),
        <<0, 0>> \o [i \in DOMAIN cols |-> cols[i] \div (Base * Base)])

\* a * k, for a small k
MulSmall(a, k) == Carried([i \in DOMAIN a |-> a[i] * k])

\* a * b, for a of at most four limbs (a significand has 53 or 54 bits)
Mul(a, b) ==
    Carried([k \in 1..(Len(a) + Len(b)) |->
                Limb(a, 1) * Limb(b, k) + Limb(a, 2) * Limb(b, k - 1)
                    + Limb(a, 3) * Limb(b, k - 2) + Limb(a, 4) * Limb(b, k - 3)])

\* quotient and remainder of a by d, for a of at most five limbs and d < 128:
\* limb k of the quotient comes from the remainder left by the limbs above it
DivSmall(a, d) ==
    LET p(j)     == ((Base % d) ^ j) % d
        above(k) == (Limb(a, k + 1) * p(0) + Limb(a, k + 2) * p(1)
                        + Limb(a, k + 3) * p(2) + Limb(a, k + 4) * p(3)
                        + Limb(a, k + 5) * p(4)) % d
    IN  [q |-> [k \in DOMAIN a |-> (above(k) * Base + a[k]) \div d],
         r |-> above(0)]

\* number of bits of a limb n
SmallBits(n) == Cardinality({k \in 0..(LimbBits - 1) : 2^k <= n})

BitLen(a) ==
    IF Top(a) = 0 THEN 0 ELSE LimbBits * (Top(a) - 1) + SmallBits(a[Top(a)])

\* bit i of a, the lowest bit being bit 0
Bit(a, i) == (Limb(a, i \div LimbBits + 1) \div 2^(i % LimbBits)) % 2

\* the lowest k bits of a are all 0
LowZero(a, k) ==
    /\ \A i \in 1..(k \div LimbBits) : Limb(a, i) = 0
    /\ Limb(a, k \div LimbBits + 1) % 2^(k % LimbBits) = 0

ShiftRight(a, k) ==
    LET b == SubSeq(a, k \div LimbBits + 1, Len(a))
        r == k % LimbBits
    IN  Trim([i \in 1..Len(b) |->
                 (b[i] \div 2^r) + (Limb(b, i + 1) % 2^r) * 2^(LimbBits - r)])

ShiftLeft(a, k) ==
    LET r == k % LimbBits
    IN  Trim([i \in 1..(k \div LimbBits) |-> 0]
                 \o [i \in 1..(Len(a) + 1) |->
                        ((Limb(a, i) * 2^r) % Base)
                            + (Limb(a, i - 1) \div 2^(LimbBits - r))])

\* n * 2^e rounded to a float: nearest, ties to even
Round(n, e) ==
    IF BitLen(n) <= Precision
    THEN [neg |-> FALSE, m |-> n, e |-> e]
    ELSE LET k  == BitLen(n) - Precision
             q  == ShiftRight(n, k)
             up == /\ Bit(n, k - 1) = 1
                   /\ (~LowZero(n, k - 1) \/ Bit(q, 0) = 1)
         IN  [neg |-> FALSE, m |-> IF up THEN Add(q, <<1>>) ELSE q, e |-> e + k]

\* Python evaluates the operands of an operation before the operation
Strict1(F(_), x) == CHOOSE r \in {F(a) : a \in {x}} : TRUE

Strict2(F(_, _), x, y) == CHOOSE r \in {F(a, b) : a \in {x}, b \in {y}} : TRUE

\* float(n) for a small natural n
FInt(n) == [neg |-> FALSE, m |-> Limbs(n), e |-> 0]

\* the significand of x once its exponent is lowered to e
Aligned(x, e) == ShiftLeft(x.m, x.e - e)

MinExp(x, y) == IF x.e < y.e THEN x.e ELSE y.e

\* x + y, for x >= 0 and y >= 0
FAdd(x, y) ==
    Strict2(LAMBDA a, b :
                Round(Add(Aligned(a, MinExp(a, b)), Aligned(b, MinExp(a, b))),
                      MinExp(a, b)),
            x, y)

\* x - y, for x >= 0 and y >= 0
FSub(x, y) ==
    Strict2(LAMBDA u, v :
                LET a == Aligned(u, MinExp(u, v))
                    b == Aligned(v, MinExp(u, v))
                IN  IF Less(a, b)
                    THEN [Round(Sub(b, a), MinExp(u, v)) EXCEPT !.neg = TRUE]
                    ELSE Round(Sub(a, b), MinExp(u, v)),
            x, y)

\* x * y, for x >= 0 and y >= 0
FMul(x, y) == Strict2(LAMBDA a, b : Round(Mul(a.m, b.m), a.e + b.e), x, y)

\* x < y (a negative float is never zero)
FLess(x, y) ==
    Strict2(LAMBDA u, v :
                LET a == Aligned(u, MinExp(u, v))
                    b == Aligned(v, MinExp(u, v))
                IN  IF u.neg # v.neg THEN u.neg
                    ELSE IF u.neg THEN Less(b, a)
                    ELSE Less(a, b),
            x, y)

FEqual(x, y) == ~FLess(x, y) /\ ~FLess(y, x)

\* x / d for x >= 0 and a natural d < 128: the dividend is scaled to DivBits
\* bits, a remainder is kept as a sticky lowest bit of the quotient, and the
\* quotient is rounded
FDiv(x, d) ==
    Strict1(LAMBDA a :
                LET g  == DivBits - BitLen(a.m)
                    dv == DivSmall(ShiftLeft(a.m, g), d)
                    q  == Trim(dv.q)
                    s  == IF dv.r # 0 /\ q[1] % 2 = 0
                          THEN [q EXCEPT ![1] = @ + 1]
                          ELSE q
                IN  Round(s, a.e - g),
            x)

\* math.ceil(x), for x >= 0
Ceil(x) ==
    Strict1(LAMBDA a :
                IF a.e >= 0
                THEN ToInt(ShiftLeft(a.m, a.e))
                ELSE ToInt(ShiftRight(a.m, -a.e))
                        + (IF LowZero(a.m, -a.e) THEN 0 ELSE 1),
            x)

\* x >= 0 in units of 1/10000, to the nearest unit
TenThousandths(x) ==
    Strict1(LAMBDA a :
                LET n == MulSmall(a.m, 10000)
                IN  IF a.e >= 0
                    THEN ToInt(ShiftLeft(n, a.e))
                    ELSE ToInt(ShiftRight(Add(n, ShiftLeft(<<1>>, -a.e - 1)), -a.e)),
            x)

(***************************************************************************)
(* src/utils.py: kalshi_fee.  Prices are given in whole cents.             *)
(***************************************************************************)
Cents == 100         \* cents of one unit: `/ 100`

Contracts == 100     \* kalshi_fee(price, 100)

\* contract counts tried
Counts == (1..MaxCount) \cup {Contracts}

\* the float a / 100
Hundredths(a) == FDiv(FInt(a), Cents)

\* the value left by a series of computations carried out in this order
Result(steps) == steps[Len(steps)]

\* math.ceil(0.07 * num_contracts * price * (1 - price) * 100)
FeeCents(price, num_contracts) ==
    LET rate  == Hundredths(7)
        t1    == FMul(rate, FInt(num_contracts))
        t2    == FMul(t1, price)
        other == FSub(FInt(1), price)
        t3    == FMul(t2, other)
        t4    == FMul(t3, FInt(100))
    IN  Result(<<price, rate, t1, t2, other, t3, t4, Ceil(t4)>>)

kalshi_fee(price, num_contracts) ==
    LET cents == FeeCents(price, num_contracts)
    IN  Result(<<cents, Hundredths(cents)>>)

(***************************************************************************)
(* src/utils.py: find_similar_markets.  The TF-IDF cosine scores are an    *)
(* input: `similarities` is the |A| x |B| matrix, in hundredths; a market  *)
(* is named by its index.                                                  *)
(***************************************************************************)
DefaultThreshold == 80   \* similarity_threshold=0.8

\* a score just below, at, and just above the default threshold
Scores == {DefaultThreshold - 1, DefaultThreshold, DefaultThreshold + 1}

Matrices ==
    UNION {[1..r -> [1..c -> Scores]] : r \in 1..MaxMarkets, c \in 1..MaxMarkets}

\* mutant of SimilarEnough: a score equal to the threshold is left out
SimilarEnoughStrict(score, threshold) == score > threshold

SimilarEnough(score, threshold) == score >= threshold

\* the inner loop over poly_markets, from column j on
RECURSIVE RowPairs(_, _, _, _)
RowPairs(sims, threshold, i, j) ==
    IF j > Len(sims[i])
    THEN <<>>
    ELSE (IF SimilarEnough(sims[i][j], threshold)
          THEN <<<<i, j, sims[i][j]>>>>
          ELSE <<>>) \o RowPairs(sims, threshold, i, j + 1)

\* the outer loop over kalshi_markets, from row i on
RECURSIVE AllPairs(_, _, _)
AllPairs(sims, threshold, i) ==
    IF i > Len(sims)
    THEN <<>>
    ELSE RowPairs(sims, threshold, i, 1) \o AllPairs(sims, threshold, i + 1)

find_similar_markets(sims, threshold) == AllPairs(sims, threshold, 1)

(***************************************************************************)
(* src/utils.py: calculate_arbitrage_opportunities.  A market is a dict:   *)
(* a record that may lack a key.  A timestamp is a day number; the text of *)
(* outcomePrices is either no JSON at all or a JSON array of decimal       *)
(* strings, each written here as its number of hundredths.                 *)
(***************************************************************************)
Has(dict, key) == key \in DOMAIN dict

Without(dict, key) == [k \in DOMAIN dict \ {key} |-> dict[k]]

\* dict.get(key, default)
Get(dict, key, default) == IF Has(dict, key) THEN dict[key] ELSE default

PriceArray(items) == [json |-> "array", items |-> items]

NotJson == [json |-> "invalid"]

\* the example of the specification: yes_ask 40, no_ask 62, prices 0.55 / 0.45
KalshiGood == [expiration_time |-> 2, yes_ask |-> 40, no_ask |-> 62]

PolyGood == [endDate |-> 1, outcomePrices |-> PriceArray(<<55, 45>>)]

\* the well-formed record and the record with one key absent
KalshiMarkets == {KalshiGood} \cup {Without(KalshiGood, f) : f \in DOMAIN KalshiGood}

OutcomePriceTexts ==
    {NotJson, PriceArray(<<55>>)}
        \cup {PriceArray(p) : p \in {<<30, 70>>, <<70, 70>>, <<30, 45>>}}

\* the well-formed record, and the record with one key absent or changed
PolyMarkets ==
    {PolyGood, [PolyGood EXCEPT !.endDate = 3]}
        \cup {Without(PolyGood, f) : f \in DOMAIN PolyGood}
        \cup {[PolyGood EXCEPT !.outcomePrices = t] : t \in OutcomePriceTexts}

\* (kalshi_market, poly_market) with at most one of the two records not the
\* well-formed one; the similarity is only copied to the row
MarketPairs ==
    {pair \in KalshiMarkets \X PolyMarkets :
        pair[1] = KalshiGood \/ pair[2] = PolyGood}

PairLists == UNION {[1..n -> MarketPairs] : n \in 0..MaxPairs}

\* except (KeyError, TypeError, ValueError, json.JSONDecodeError)
Caught == {"KeyError", "TypeError", "ValueError", "JSONDecodeError"}

Skipped == [out |-> "skip"]

Raises(exc) == [out |-> "raise", exc |-> exc]

\* mutant of Margin: the margin is not clamped at 0
MarginUnclamped(cost) == FSub(FInt(1), cost)

\* 1 - cost if cost < 1 else 0
Margin(cost) == IF FLess(cost, FInt(1)) THEN FSub(FInt(1), cost) ELSE FInt(0)

\* strat1_arb > 0 or strat2_arb > 0
Profitable(strat1_arb, strat2_arb) ==
    FLess(FInt(0), strat1_arb) \/ FLess(FInt(0), strat2_arb)

MinStamp(s, t) == IF t < s THEN t ELSE s

\* the four prices on the [0, 1] scale (lines 90-95)
Prices(kalshi_market, poly_market) ==
    [kalshi_yes_price |-> Hundredths(Get(kalshi_market, "yes_ask", 0)),
     kalshi_no_price  |-> Hundredths(Get(kalshi_market, "no_ask", 0)),
     poly_yes_price   |-> Hundredths(poly_market.outcomePrices.items[1]),
     poly_no_price    |-> Hundredths(poly_market.outcomePrices.items[2])]

\* the fee per contract of each Kalshi side (lines 97-98)
Fees(prices) ==
    [kalshi_yes_fee |-> FDiv(kalshi_fee(prices.kalshi_yes_price, Contracts), 100),
     kalshi_no_fee  |-> FDiv(kalshi_fee(prices.kalshi_no_price, Contracts), 100)]

\* the cost of each strategy (lines 100-101)
Costs(prices, fees) ==
    [strat1_cost |-> FAdd(FAdd(prices.kalshi_yes_price, fees.kalshi_yes_fee),
                          prices.poly_no_price),
     strat2_cost |-> FAdd(FAdd(prices.kalshi_no_price, fees.kalshi_no_fee),
                          prices.poly_yes_price)]

\* the margin of each strategy (lines 103-104)
Margins(costs) ==
    [strat1_arb |-> Margin(costs.strat1_cost),
     strat2_arb |-> Margin(costs.strat2_cost)]

\* the pair is kept if a margin is positive (lines 110-126)
Kept(kalshi_market, poly_market, prices, fees, arbs) ==
    IF Profitable(arbs.strat1_arb, arbs.strat2_arb)
    THEN [out |-> "opp",
          row |-> [kalshi_yes_poly_no_arb |-> arbs.strat1_arb,
                   kalshi_no_poly_yes_arb |-> arbs.strat2_arb,
                   kalshi_yes_price |-> prices.kalshi_yes_price,
                   kalshi_no_price |-> prices.kalshi_no_price,
                   poly_yes_price |-> prices.poly_yes_price,
                   poly_no_price |-> prices.poly_no_price,
                   kalshi_yes_fee |-> fees.kalshi_yes_fee,
                   kalshi_no_fee |-> fees.kalshi_no_fee,
                   expiration_date |-> MinStamp(kalshi_market.expiration_time,
                                                poly_market.endDate)]]
    ELSE Skipped

Costed(kalshi_market, poly_market, prices, fees, costs) ==
    Result(<<costs,
             Kept(kalshi_market, poly_market, prices, fees, Margins(costs))>>)

Charged(kalshi_market, poly_market, prices, fees) ==
    Result(<<fees,
             Costed(kalshi_market, poly_market, prices, fees,
                    Costs(prices, fees))>>)

Priced(kalshi_market, poly_market, prices) ==
    Result(<<prices,
             Charged(kalshi_market, poly_market, prices, Fees(prices))>>)

\* the body of the loop once outcomePrices has parsed to two entries
Opportunity(kalshi_market, poly_market) ==
    Priced(kalshi_market, poly_market, Prices(kalshi_market, poly_market))

\* one pass of the loop body: skip, raise, or an opportunity
ScorePair(pair) ==
    LET kalshi_market == pair[1]
        poly_market   == pair[2]
    IN  IF ~(/\ Has(kalshi_market, "expiration_time")
             /\ Has(poly_market, "endDate")
             /\ Has(poly_market, "outcomePrices"))
        THEN Skipped
        ELSE IF poly_market.outcomePrices.json # "array"
        THEN Raises("JSONDecodeError")
        ELSE IF Len(poly_market.outcomePrices.items) < 2
        THEN Raises("IndexError")
        ELSE Opportunity(kalshi_market, poly_market)

\* the effect of one pass on the outcome so far: an exception outside the
\* except clause leaves the function, and the later pairs are not scored
Pass(sofar, r) ==
    IF sofar.raised # "none"
    THEN sofar
    ELSE IF r.out = "raise" /\ r.exc \notin Caught
    THEN [raised |-> r.exc, value |-> <<>>]
    ELSE IF r.out = "opp"
    THEN [raised |-> "none", value |-> Append(sofar.value, r.row)]
    ELSE sofar

\* the loop over the first n pairs
RECURSIVE ScoreFrom(_, _)
ScoreFrom(pairs, n) ==
    IF n = 0
    THEN [raised |-> "none", value |-> <<>>]
    ELSE Pass(ScoreFrom(pairs, n - 1), ScorePair(pairs[n]))

calculate_arbitrage_opportunities(pairs) == ScoreFrom(pairs, Len(pairs))

(***************************************************************************)
(* src/utils.py: generate_arbitrage_report.  The rows are sorted by        *)
(* expiration_date, kalshi_yes_poly_no_arb, kalshi_no_poly_yes_arb; rows   *)
(* equal in all three keys keep their order here (polars leaves their      *)
(* order open).                                                            *)
(***************************************************************************)
\* mutant of Descending: every key ascending
DescendingNowhere == <<FALSE, FALSE, FALSE>>

\* descending=[False, True, True]
Descending == <<FALSE, TRUE, TRUE>>

\* by=[...]: row a is below row b in sort key k
KeyLess(k, a, b) ==
    CASE k = 1 -> a.expiration_date < b.expiration_date
      [] k = 2 -> FLess(a.kalshi_yes_poly_no_arb, b.kalshi_yes_poly_no_arb)
      [] k = 3 -> FLess(a.kalshi_no_poly_yes_arb, b.kalshi_no_poly_yes_arb)

KeyBefore(k, a, b) == IF Descending[k] THEN KeyLess(k, b, a) ELSE KeyLess(k, a, b)

RowBefore(a, b) ==
    \/ KeyBefore(1, a, b)
    \/ /\ ~KeyBefore(1, b, a)
       /\ \/ KeyBefore(2, a, b)
          \/ ~KeyBefore(2, b, a) /\ KeyBefore(3, a, b)

RECURSIVE InsertRow(_, _)
InsertRow(row, rows) ==
    IF rows = <<>>
    THEN <<row>>
    ELSE IF RowBefore(row, Head(rows))
    THEN <<row>> \o rows
    ELSE <<Head(rows)>> \o InsertRow(row, Tail(rows))

RECURSIVE SortRows(_)
SortRows(rows) ==
    IF rows = <<>>
    THEN <<>>
    ELSE InsertRow(rows[Len(rows)], SortRows(SubSeq(rows, 1, Len(rows) - 1)))

generate_arbitrage_report(opps) == IF opps = <<>> THEN <<>> ELSE SortRows(opps)

\* no utils.py function is under check
NoAnalysis ==
    /\ step = "off"
    /\ price_cents = 0
    /\ contracts = 1
    /\ fee = FInt(0)
    /\ similarities = <<>>
    /\ similarity_threshold = DefaultThreshold
    /\ similar_pairs = <<>>
    /\ opportunities = [raised |-> "none", value |-> <<>>]
    /\ report = <<>>

Idle(active) ==
    /\ rate_limiter = [v \in Venues |-> NewLimiter(v)]
    /\ level = [l \in Venues |-> 0]
    /\ acquired = [l \in Venues |-> 0]
    /\ pc = [v \in Venues |-> IF v \in active THEN "ready" ELSE "off"]
    /\ cursors = <<>>
    /\ current_offset = 0
    /\ all_markets = [v \in Venues |-> <<>>]
    /\ tasks = [v \in Venues |-> <<>>]
    /\ wave = [v \in Venues |-> 0]
    /\ inflight = [v \in Venues |-> {}]
    /\ requested = [v \in Venues |-> {}]
    /\ delivered = [v \in Venues |-> {}]
    /\ failed = [v \in Venues |-> {}]
    /\ saves = [v \in Venues |-> <<>>]
    /\ ret = [v \in Venues |-> <<>>]
    /\ wrote = [v \in Venues |-> "none"]

\* main(): both clients constructed, both runs handed to asyncio.gather
Init ==
    /\ max_concurrent \in 1..MaxConcurrent
    /\ venue \in [Venues -> MainVenueData]
    /\ disk = [v \in Venues |-> <<>>]
    /\ mainPc = "gather"
    /\ Idle(Venues)
    /\ NoAnalysis

\* one client, its fetch_markets called on its own
InitRun ==
    /\ max_concurrent \in 1..MaxConcurrent
    /\ \E solo \in Venues :
        /\ venue \in [Venues -> VenueData(MaxPages)]
        /\ \A w \in Venues \ {solo} : venue[w] = NoData
        /\ disk \in [Venues -> OldSnapshots]
        /\ \A w \in Venues \ {solo} : disk[w] = <<>>
        /\ Idle({solo})
    /\ mainPc = "off"
    /\ NoAnalysis

\* no run: only _save_markets is exercised, on an empty snapshot
InitMerge ==
    /\ max_concurrent = 1
    /\ venue = [v \in Venues |-> NoData]
    /\ disk = [v \in Venues |-> <<>>]
    /\ mainPc = "off"
    /\ Idle({})
    /\ NoAnalysis

(***************************************************************************)
(* fetch_markets up to its first await: the first wave is created.         *)
(***************************************************************************)
Start ==
    LET S == {v \in Venues : pc[v] = "ready"} IN
    /\ S # {}
    /\ pc' = [v \in Venues |-> IF v \in S THEN "gather" ELSE pc[v]]
    /\ wave' = [v \in Venues |-> IF v \in S THEN 1 ELSE wave[v]]
    /\ tasks' = [v \in Venues |-> IF v \in S THEN FirstWave(v) ELSE tasks[v]]
    /\ cursors' = IF "kalshi" \in S THEN RestCursors(<<NoCursor>>) ELSE cursors
    /\ current_offset' = IF "polymarket" \in S THEN 0 ELSE current_offset
    /\ UNCHANGED utilVars
    /\ UNCHANGED <<max_concurrent, venue, rate_limiter, level, acquired,
                   all_markets, inflight, requested, delivered, failed, disk,
                   saves, ret, wrote, mainPc>>

(***************************************************************************)
(* _fetch_markets_page: `async with self.rate_limiter` then session.get.   *)
(***************************************************************************)
\* mutant of HasCapacity: off by one, a bucket of max_rate 1 never grants
HasCapacityStrict(l) == level[l] + 1 < MaxRate

\* AsyncLimiter.has_capacity
HasCapacity(l) == level[l] < MaxRate

Request(v, i) == <<wave[v], i, tasks[v][i].arg>>

Acquire(v, i) ==
    /\ pc[v] = "gather"
    /\ i \in 1..Len(tasks[v])
    /\ tasks[v][i].st = "limiter"
    /\ HasCapacity(rate_limiter[v])
    /\ level' = [level EXCEPT ![rate_limiter[v]] = @ + 1]
    /\ acquired' = [acquired EXCEPT ![rate_limiter[v]] = @ + 1]
    /\ tasks' = [tasks EXCEPT ![v][i].st = "http"]
    /\ inflight' = [inflight EXCEPT ![v] = @ \cup {Request(v, i)}]
    /\ requested' = [requested EXCEPT ![v] = @ \cup {Request(v, i)}]
    /\ UNCHANGED utilVars
    /\ UNCHANGED <<max_concurrent, venue, rate_limiter, pc, cursors,
                   current_offset, all_markets, wave, delivered, failed, disk,
                   saves, ret, wrote, mainPc>>

\* the bucket drains as time passes
Leak(l) ==
    /\ level[l] > 0
    /\ level' = [level EXCEPT ![l] = @ - 1]
    /\ UNCHANGED utilVars
    /\ UNCHANGED <<max_concurrent, venue, rate_limiter, acquired, pc, cursors,
                   current_offset, all_markets, tasks, wave, inflight,
                   requested, delivered, failed, disk, saves, ret, wrote,
                   mainPc>>

\* the venue answers with a page: the task returns it
RespondOk(v, i) ==
    /\ pc[v] = "gather"
    /\ i \in 1..Len(tasks[v])
    /\ tasks[v][i].st = "http"
    /\ tasks' = [tasks EXCEPT ![v][i].st = "ok"]
    /\ inflight' = [inflight EXCEPT ![v] = @ \ {Request(v, i)}]
    /\ delivered' = [delivered EXCEPT ![v] = @ \cup {Request(v, i)}]
    /\ UNCHANGED utilVars
    /\ UNCHANGED <<max_concurrent, venue, rate_limiter, level, acquired, pc,
                   cursors, current_offset, all_markets, wave, requested,
                   failed, disk, saves, ret, wrote, mainPc>>

\* raise_for_status() or a transport error: the task raises, gather keeps the
\* exception as that task's result
RespondErr(v, i) ==
    /\ pc[v] = "gather"
    /\ i \in 1..Len(tasks[v])
    /\ tasks[v][i].st = "http"
    /\ tasks' = [tasks EXCEPT ![v][i].st = "err"]
    /\ inflight' = [inflight EXCEPT ![v] = @ \ {Request(v, i)}]
    /\ failed' = [failed EXCEPT ![v] = @ \cup {Request(v, i)}]
    /\ UNCHANGED utilVars
    /\ UNCHANGED <<max_concurrent, venue, rate_limiter, level, acquired, pc,
                   cursors, current_offset, all_markets, wave, requested,
                   delivered, disk, saves, ret, wrote, mainPc>>

(***************************************************************************)
(* fetch_markets from the gather's return to the next await or the return. *)
(***************************************************************************)
\* mutant of Gathered: a wave with a failed fetch is discarded whole
GatheredUnlessFailed(v) ==
    IF \E i \in 1..Len(tasks[v]) : tasks[v][i].st = "err"
    THEN all_markets[v]
    ELSE all_markets[v] \o WaveRecords(v, tasks[v])

\* all_markets after the loop body
Gathered(v) == all_markets[v] \o WaveRecords(v, tasks[v])

\* mutant of OffsetAfter: the offset advances past the answered fetches only
OffsetAfterAnswered(ts, off) ==
    off + Cardinality({i \in 1..Len(ts) : Succeeded(ts[i])}) * Limit

\* current_offset += len(tasks) * limit, only when the wave brought records
OffsetAfter(ts, off) ==
    IF WaveRecords("polymarket", ts) # <<>> THEN off + Len(ts) * Limit ELSE off

\* the loop goes round: the next wave is created and gathered
NextWave(v) ==
    /\ pc[v] = "gather"
    /\ GatherDone(tasks[v])
    /\ HasMore(v)
    /\ all_markets' = [all_markets EXCEPT ![v] = Gathered(v)]
    /\ wave' = [wave EXCEPT ![v] = @ + 1]
    /\ IF v = "kalshi"
       THEN LET cs == WaveCursors(cursors, tasks[v]) IN
            /\ tasks' = [tasks EXCEPT ![v] = MkTasks(TakeCursors(cs))]
            /\ cursors' = RestCursors(cs)
            /\ UNCHANGED current_offset
       ELSE LET off == OffsetAfter(tasks[v], current_offset) IN
            /\ tasks' = [tasks EXCEPT ![v] = MkTasks(WaveOffsets(off))]
            /\ current_offset' = off
            /\ UNCHANGED cursors
    /\ UNCHANGED utilVars
    /\ UNCHANGED <<max_concurrent, venue, rate_limiter, level, acquired, pc,
                   inflight, requested, delivered, failed, disk, saves, ret,
                   wrote, mainPc>>

\* the frontier locals when the loop is left
LeaveLoop(v) ==
    /\ tasks' = [tasks EXCEPT ![v] = <<>>]
    /\ all_markets' = [all_markets EXCEPT ![v] = Gathered(v)]
    /\ IF v = "kalshi"
       THEN cursors' = WaveCursors(cursors, tasks[v]) /\ UNCHANGED current_offset
       ELSE current_offset' = OffsetAfter(tasks[v], current_offset)
            /\ UNCHANGED cursors

\* the loop is left; `if all_markets: self._save_markets(all_markets)` writes
\* the merged snapshot (or there is nothing to save); return all_markets
Finish(v) ==
    /\ pc[v] = "gather"
    /\ GatherDone(tasks[v])
    /\ ~HasMore(v)
    /\ LeaveLoop(v)
    /\ IF Gathered(v) # <<>>
       THEN /\ disk' = [disk EXCEPT ![v] = Merge(v, LoadExisting(v), Gathered(v))]
            /\ saves' = [saves EXCEPT ![v] =
                            Append(@, [existing |-> LoadExisting(v),
                                       markets |-> Gathered(v)])]
            /\ wrote' = [wrote EXCEPT ![v] = "ok"]
       ELSE UNCHANGED <<disk, saves, wrote>>
    /\ ret' = [ret EXCEPT ![v] = Gathered(v)]
    /\ pc' = [pc EXCEPT ![v] = "returned"]
    /\ UNCHANGED utilVars
    /\ UNCHANGED <<max_concurrent, venue, rate_limiter, level, acquired, wave,
                   inflight, requested, delivered, failed, mainPc>>

\* what a failed write leaves in the file: open(file_path, 'w') raised and the
\* file is as it was, or open truncated the file and json.dump raised after
\* only the first records of the merged list were written
FailedWrites(old, merged) ==
    {old} \cup {SubSeq(merged, 1, n) : n \in 0..(Len(merged) - 1)}

\* the loop is left and the write of _save_markets raises: the exception
\* leaves fetch_markets (and fetch_kalshi / fetch_polymarket, which log and
\* re-raise) before `return all_markets`
FinishWriteFails(v) ==
    /\ pc[v] = "gather"
    /\ GatherDone(tasks[v])
    /\ ~HasMore(v)
    /\ Gathered(v) # <<>>
    /\ LeaveLoop(v)
    /\ \E left \in FailedWrites(disk[v], Merge(v, LoadExisting(v), Gathered(v))) :
          disk' = [disk EXCEPT ![v] = left]
    /\ wrote' = [wrote EXCEPT ![v] = "failed"]
    /\ pc' = [pc EXCEPT ![v] = "raised"]
    /\ UNCHANGED utilVars
    /\ UNCHANGED <<max_concurrent, venue, rate_limiter, level, acquired, wave,
                   inflight, requested, delivered, failed, saves, ret, mainPc>>

(***************************************************************************)
(* main(): await asyncio.gather(fetch_polymarket(), fetch_kalshi()).       *)
(***************************************************************************)
\* both runs returned: find_arbitrage_opportunities() runs
MainAnalysis ==
    /\ mainPc = "gather"
    /\ \A v \in Venues : pc[v] = "returned"
    /\ mainPc' = "analysis"
    /\ UNCHANGED utilVars
    /\ UNCHANGED <<max_concurrent, venue, rate_limiter, level, acquired, pc,
                   cursors, current_offset, all_markets, tasks, wave, inflight,
                   requested, delivered, failed, disk, saves, ret, wrote>>

\* what asyncio.run does to a run still pending when main() returns
AtMainExit(p) == IF p \in {"ready", "gather"} THEN "cancelled" ELSE p

\* a run raised: gather (return_exceptions left False) hands the exception to
\* main(), which logs it and returns; asyncio.run then cancels what is pending
MainAbort ==
    /\ mainPc = "gather"
    /\ \E v \in Venues : pc[v] = "raised"
    /\ mainPc' = "aborted"
    /\ pc' = [v \in Venues |-> AtMainExit(pc[v])]
    /\ tasks' = [v \in Venues |->
                    IF pc'[v] = "cancelled" THEN <<>> ELSE tasks[v]]
    /\ inflight' = [v \in Venues |->
                    IF pc'[v] = "cancelled" THEN {} ELSE inflight[v]]
    /\ UNCHANGED utilVars
    /\ UNCHANGED <<max_concurrent, venue, rate_limiter, level, acquired,
                   cursors, current_offset, all_markets, wave, requested,
                   delivered, failed, disk, saves, ret, wrote>>

(***************************************************************************)
(* _save_markets called directly, twice in a row, with any record lists.   *)
(***************************************************************************)
Records == [id : 1..MaxId, x : 1..MaxX]

RecordLists == UNION {[1..n -> Records] : n \in 0..MaxNew}

Save(v, markets) ==
    /\ disk' = [disk EXCEPT ![v] = Merge(v, LoadExisting(v), markets)]
    /\ saves' = [saves EXCEPT ![v] =
                    Append(@, [existing |-> LoadExisting(v), markets |-> markets])]
    /\ UNCHANGED utilVars
    /\ UNCHANGED <<max_concurrent, venue, rate_limiter, level, acquired, pc,
                   cursors, current_offset, all_markets, tasks, wave, inflight,
                   requested, delivered, failed, ret, wrote, mainPc>>

SaveFirst(v) ==
    /\ \A w \in Venues : saves[w] = <<>>
    /\ \E markets \in RecordLists : Save(v, markets)

SaveAgain(v) ==
    /\ Len(saves[v]) = 1
    /\ \E markets \in RecordLists : Save(v, markets)

(***************************************************************************)
(* The functions of utils.py, each applied to inputs drawn from small sets *)
(* (find_arbitrage_opportunities of main.py calls them in this order).     *)
(***************************************************************************)
\* no collection run
NoRun ==
    /\ max_concurrent = 1
    /\ venue = [v \in Venues |-> NoData]
    /\ disk = [v \in Venues |-> <<>>]
    /\ mainPc = "off"
    /\ Idle({})

InitFee ==
    /\ NoRun
    /\ step = "fee"
    /\ price_cents \in 0..Cents
    /\ contracts \in Counts
    /\ fee = FInt(0)
    /\ similarities = <<>>
    /\ similarity_threshold = DefaultThreshold
    /\ similar_pairs = <<>>
    /\ opportunities = [raised |-> "none", value |-> <<>>]
    /\ report = <<>>

ComputeFee ==
    /\ step = "fee"
    /\ step' = "fee_done"
    /\ fee' = kalshi_fee(Hundredths(price_cents), contracts)
    /\ UNCHANGED runVars
    /\ UNCHANGED <<price_cents, contracts, similarities, similarity_threshold,
                   similar_pairs, opportunities, report>>

InitMatch ==
    /\ NoRun
    /\ step = "match"
    /\ similarities \in Matrices
    /\ similarity_threshold \in Scores
    /\ similar_pairs = <<>>
    /\ price_cents = 0
    /\ contracts = 1
    /\ fee = FInt(0)
    /\ opportunities = [raised |-> "none", value |-> <<>>]
    /\ report = <<>>

FindSimilarMarkets ==
    /\ step = "match"
    /\ step' = "matched"
    /\ similar_pairs' = find_similar_markets(similarities, similarity_threshold)
    /\ UNCHANGED runVars
    /\ UNCHANGED <<price_cents, contracts, fee, similarities,
                   similarity_threshold, opportunities, report>>

InitArb ==
    /\ NoRun
    /\ step = "score"
    /\ similar_pairs \in PairLists
    /\ opportunities = [raised |-> "none", value |-> <<>>]
    /\ report = <<>>
    /\ price_cents = 0
    /\ contracts = 1
    /\ fee = FInt(0)
    /\ similarities = <<>>
    /\ similarity_threshold = DefaultThreshold

CalculateArbitrageOpportunities ==
    /\ step = "score"
    /\ step' = "scored"
    /\ opportunities' = calculate_arbitrage_opportunities(similar_pairs)
    /\ UNCHANGED runVars
    /\ UNCHANGED <<price_cents, contracts, fee, similarities,
                   similarity_threshold, similar_pairs, report>>

\* reached only when calculate_arbitrage_opportunities returned
GenerateArbitrageReport ==
    /\ step = "scored"
    /\ opportunities.raised = "none"
    /\ step' = "reported"
    /\ report' = generate_arbitrage_report(opportunities.value)
    /\ UNCHANGED runVars
    /\ UNCHANGED <<price_cents, contracts, fee, similarities,
                   similarity_threshold, similar_pairs, opportunities>>

(***************************************************************************)
(* Specifications.                                                         *)
(***************************************************************************)
RunStep ==
    \/ Start
    \/ \E v \in Venues : \E i \in 1..MaxConcurrent : Acquire(v, i)
    \/ \E l \in Venues : Leak(l)
    \/ \E v \in Venues : \E i \in 1..MaxConcurrent : RespondOk(v, i)
    \/ \E v \in Venues : \E i \in 1..MaxConcurrent : RespondErr(v, i)
    \/ \E v \in Venues : NextWave(v)
    \/ \E v \in Venues : Finish(v)
    \/ \E v \in Venues : FinishWriteFails(v)

Next ==
    \/ RunStep
    \/ MainAnalysis
    \/ MainAbort

NextRun == RunStep

NextMerge ==
    \/ \E v \in Venues : SaveFirst(v)
    \/ \E v \in Venues : SaveAgain(v)

Spec == Init /\ [][Next]_vars

SpecRun == InitRun /\ [][NextRun]_vars

\* the event loop runs whatever is ready, requests are answered or time out,
\* and the bucket drains: the run does not stop while a step is possible
SpecRunFair == InitRun /\ [][NextRun]_vars /\ WF_vars(NextRun)

SpecMerge == InitMerge /\ [][NextMerge]_vars

NextFee == ComputeFee

SpecFee == InitFee /\ [][NextFee]_vars

NextMatch == FindSimilarMarkets

SpecMatch == InitMatch /\ [][NextMatch]_vars

NextArb ==
    \/ CalculateArbitrageOpportunities
    \/ GenerateArbitrageReport

SpecArb == InitArb /\ [][NextArb]_vars

TypeOK ==
    /\ max_concurrent \in 1..MaxConcurrent
    /\ pc \in [Venues -> {"off", "ready", "gather", "returned", "raised", "cancelled"}]
    /\ wrote \in [Venues -> {"none", "ok", "failed"}]
    /\ mainPc \in {"off", "gather", "analysis", "aborted"}
    /\ \A l \in Venues : level[l] \in 0..MaxRate

(***************************************************************************)
(* Vocabulary of the properties.                                           *)
(***************************************************************************)
Kalshi == "kalshi"

Polymarket == "polymarket"

\* fetch_markets has ended, by return or by exception
Done(v) == pc[v] \in {"returned", "raised"}

\* no page request of the run failed
NoFailure(v) == failed[v] = {}

Args(rs) == {r[3] : r \in rs}

\* <<wave, index>> order of two requests
Before(d, e) == d[1] < e[1] \/ (d[1] = e[1] /\ d[2] <= e[2])

\* the pages of a set of answered requests, wave by wave, in task order
RECURSIVE ConcatPages(_, _)
ConcatPages(v, D) ==
    IF D = {} THEN <<>>
    ELSE LET m == CHOOSE d \in D : \A e \in D : Before(d, e)
         IN  Page(v, m[3]) \o ConcatPages(v, D \ {m})

\* what the j-th _save_markets call of a venue wrote
Written(v, j) == IF j < Len(saves[v]) THEN saves[v][j + 1].existing ELSE disk[v]

FirstIndex(c, k) == CHOOSE b \in 1..Len(c) :
                        c[b].id = k /\ \A a \in 1..(b - 1) : c[a].id # k

\* w is c reduced to the first occurrence of each id, in order of first occurrence
IsFirstOccurrences(w, c) ==
    /\ \A a, b \in 1..Len(w) : a # b => w[a].id # w[b].id
    /\ {w[a].id : a \in 1..Len(w)} = {c[b].id : b \in 1..Len(c)}
    /\ \A a \in 1..Len(w) : w[a] = c[FirstIndex(c, w[a].id)]
    /\ \A a, b \in 1..Len(w) :
          a < b => FirstIndex(c, w[a].id) < FirstIndex(c, w[b].id)

(***************************************************************************)
(* C1 (SpecRun).  Kalshi, cursor pagination: when the venue answers n      *)
(* requests with a full page and a cursor and the next with a short or     *)
(* empty page and no cursor (no request failing), every cursor is          *)
(* requested at most once, no request follows the terminal answer, and the *)
(* finished run has issued exactly n + 1 requests.                         *)
(***************************************************************************)
C1_KalshiRequestCount ==
    LET n == venue[Kalshi].full IN
    NoFailure(Kalshi) =>
        /\ Cardinality(requested[Kalshi]) = Cardinality(Args(requested[Kalshi]))
        /\ Args(requested[Kalshi]) \subseteq 0..n
        /\ (\E r \in delivered[Kalshi] : r[3] = n)
              => /\ Cardinality(requested[Kalshi]) = n + 1
                 /\ inflight[Kalshi] = {}
        /\ Done(Kalshi) => Cardinality(requested[Kalshi]) = n + 1

C1_Witness ==
    /\ pc[Kalshi] = "returned"
    /\ NoFailure(Kalshi)
    /\ venue[Kalshi].full = MaxPages
    /\ max_concurrent = MaxConcurrent
    /\ Cardinality(requested[Kalshi]) = MaxPages + 1

C3_KalshiFirstOccurrence ==
    \A j \in 1..Len(saves[Kalshi]) :
        LET s == saves[Kalshi][j] IN
        /\ IsFirstOccurrences(Written(Kalshi, j), s.existing \o s.markets)
        /\ \A a \in 1..Len(s.existing) :
              \E b \in 1..Len(Written(Kalshi, j)) :
                  Written(Kalshi, j)[b] = s.existing[a]

C3_Witness ==
    /\ Len(saves[Kalshi]) = 2
    /\ saves[Kalshi][2].existing = <<[id |-> 1, x |-> 1]>>
    /\ saves[Kalshi][2].markets = <<[id |-> 2, x |-> 1], [id |-> 1, x |-> 2]>>
    /\ disk[Kalshi] = <<[id |-> 1, x |-> 1], [id |-> 2, x |-> 1]>>

(***************************************************************************)
(* C4 (SpecMerge).  Polymarket snapshot: no two persisted records share    *)
(* an id.                                                                  *)
(***************************************************************************)
C4_PolymarketUniqueIds ==
    \A a, b \in 1..Len(disk[Polymarket]) :
        a # b => disk[Polymarket][a].id # disk[Polymarket][b].id

(***************************************************************************)
(* C5 (SpecMerge).  Both venues: merging a list into the empty snapshot    *)
(* and then merging the same list again leaves the snapshot as the first   *)
(* merge wrote it.                                                         *)
(***************************************************************************)
C5_MergeIdempotent ==
    \A v \in Venues :
        (/\ Len(saves[v]) = 2
         /\ saves[v][1].existing = <<>>
         /\ saves[v][2].markets = saves[v][1].markets)
        => disk[v] = Written(v, 1)

C5_Witness ==
    \E v \in Venues :
        /\ Len(saves[v]) = 2
        /\ saves[v][1].existing = <<>>
        /\ saves[v][2].markets = saves[v][1].markets
        /\ saves[v][1].markets = <<[id |-> 1, x |-> 1], [id |-> 1, x |-> 1]>>
        /\ disk[v] = <<[id |-> 1, x |-> 1]>>

(***************************************************************************)
(* C6 (SpecRun).  A failed snapshot write does not lose the collected      *)
(* records: fetch_markets still returns them.                              *)
(***************************************************************************)
C6_ReturnsDespiteWriteFailure ==
    \A v \in Venues :
        wrote[v] = "failed" =>
            /\ pc[v] = "returned"
            /\ ret[v] = all_markets[v]
            /\ ret[v] # <<>>

(***************************************************************************)
(* C7 (SpecRun).  Page failures are contained: the records gathered are    *)
(* always the pages of the answered requests of the finished waves, wave   *)
(* by wave in task order; a sibling of a failed fetch can still be         *)
(* answered; the run raises only when the snapshot write fails; and what   *)
(* it returns is the concatenation of every answered page.                 *)
(***************************************************************************)
C7_PageFailuresContained ==
    \A v \in Venues :
        /\ pc[v] = "gather" =>
              /\ all_markets[v]
                    = ConcatPages(v, {d \in delivered[v] : d[1] < wave[v]})
              /\ \A i \in 1..Len(tasks[v]) :
                    tasks[v][i].st = "http" => ENABLED RespondOk(v, i)
        /\ pc[v] = "raised" => wrote[v] = "failed"
        /\ pc[v] = "returned" => ret[v] = ConcatPages(v, delivered[v])

C7_Witness ==
    /\ pc[Polymarket] = "returned"
    /\ \E f \in failed[Polymarket] : \E d \in delivered[Polymarket] :
          f[1] = d[1] /\ f[2] < d[2] /\ Page(Polymarket, d[3]) # <<>>
    /\ \E f \in failed[Polymarket] : f[1] = 2
    /\ ret[Polymarket] # <<>>

(***************************************************************************)
(* C8 (Spec).  Bounded concurrency: a venue never has more than            *)
(* max_concurrent requests in flight, a wave holds at most max_concurrent  *)
(* fetches and issues at most one request per fetch, and every request in  *)
(* flight belongs to the wave being gathered.                              *)
(***************************************************************************)
C8_BoundedConcurrency ==
    \A v \in Venues :
        /\ Cardinality(inflight[v]) <= max_concurrent
        /\ Len(tasks[v]) <= max_concurrent
        /\ \A r \in inflight[v] : r[1] = wave[v]
        /\ \A r, q \in requested[v] : (r[1] = q[1] /\ r[2] = q[2]) => r = q
        /\ pc[v] = "gather" =>
              \A r \in requested[v] : r[1] = wave[v] => r[2] \in 1..Len(tasks[v])

C8_Witness ==
    /\ max_concurrent = MaxConcurrent
    /\ wave[Polymarket] = 2
    /\ Cardinality(inflight[Polymarket]) = MaxConcurrent
    /\ inflight[Kalshi] # {}

(***************************************************************************)
(* C9 (Spec).  Rate limiting: the two clients hold different limiter       *)
(* instances; every request a venue has issued was counted by that venue's *)
(* limiter and by no other; no bucket is over its rate; and a fetch        *)
(* waiting on its venue's limiter can go ahead as soon as that limiter has *)
(* capacity, whatever the level of the other venue's limiter.              *)
(***************************************************************************)
C9_RateLimiting ==
    /\ rate_limiter[Kalshi] # rate_limiter[Polymarket]
    /\ \A v \in Venues :
          /\ acquired[rate_limiter[v]] = Cardinality(requested[v])
          /\ level[rate_limiter[v]] <= MaxRate
          /\ level[rate_limiter[v]] <= Cardinality(requested[v])
          /\ \A i \in 1..Len(tasks[v]) :
                (pc[v] = "gather" /\ tasks[v][i].st = "limiter"
                    /\ level[rate_limiter[v]] < MaxRate)
                => ENABLED Acquire(v, i)

C9_Witness ==
    \E v, w \in Venues :
        /\ v # w
        /\ level[rate_limiter[w]] = MaxRate
        /\ \E i \in 1..Len(tasks[w]) : tasks[w][i].st = "limiter"
        /\ level[rate_limiter[v]] = 0
        /\ \E i \in 1..Len(tasks[v]) : tasks[v][i].st = "limiter"
        /\ \E r \in requested[v] : r[1] = wave[v]

(***************************************************************************)
(* C10 (Spec).  Venue isolation: when one venue's run is aborted by an     *)
(* error, the other venue's run is not cancelled.                          *)
(***************************************************************************)
C10_OtherVenueNotCancelled ==
    \A v, w \in Venues :
        (v # w /\ pc[v] = "raised") => pc[w] # "cancelled"

(***************************************************************************)
(* C11 (SpecRunFair).  Termination, both venues: a venue holds finitely    *)
(* many records, so under every pattern of page failures a started run     *)
(* stops issuing waves and fetch_markets ends: it returns, unless the      *)
(* snapshot write raises.                                                  *)
(***************************************************************************)
C11_Terminates ==
    \A v \in Venues :
        (pc[v] = "gather") ~>
            (/\ Done(v)
             /\ tasks[v] = <<>>
             /\ inflight[v] = {}
             /\ (pc[v] = "returned" \/ wrote[v] = "failed"))

C11_Witness ==
    \E v \in Venues :
        /\ pc[v] = "returned"
        /\ wave[v] >= 2
        /\ failed[v] # {}
        /\ Cardinality(delivered[v]) < venue[v].full + 1

(***************************************************************************)
(* C19 (SpecRun).  Kalshi, causal cursor dependency: a request carries     *)
(* either no cursor, and then it is the one request of the first wave, or  *)
(* a cursor that an answered request of an earlier wave returned; and a    *)
(* cursor is requested no more often than the venue returned it.           *)
(***************************************************************************)
C19_CursorCausality ==
    LET R == requested[Kalshi]
        D == delivered[Kalshi]
    IN  /\ \A r \in R :
              \/ r[3] = NoCursor /\ r[1] = 1
              \/ /\ r[3] # NoCursor
                 /\ \E d \in D : d[1] < r[1] /\ NextCursor(d[3]) = r[3]
        /\ Cardinality({r \in R : r[3] = NoCursor}) <= 1
        /\ pc[Kalshi] \in {"gather", "returned", "raised"}
              => Cardinality({r \in R : r[3] = NoCursor})
                    + Cardinality({t \in DOMAIN tasks[Kalshi] :
                          tasks[Kalshi][t].st = "limiter" /\ wave[Kalshi] = 1}) = 1
        /\ \A r \in R :
              r[3] # NoCursor =>
                  Cardinality({q \in R : q[3] = r[3]})
                     <= Cardinality({d \in D : NextCursor(d[3]) = r[3]})

C19_Witness ==
    /\ pc[Kalshi] = "gather"
    /\ max_concurrent = MaxConcurrent
    /\ \E r \in inflight[Kalshi] : r[1] = 3 /\ r[3] = 2
    /\ \E d \in delivered[Kalshi] : d[1] = 2 /\ NextCursor(d[3]) = 2

(***************************************************************************)
(* C20 (SpecRun).  Kalshi: the frontier never holds more than one cursor,  *)
(* so every wave is one page request whatever max_concurrent is; and a     *)
(* failed page fetch leaves the frontier empty: no further wave follows    *)
(* and the run ends with the records gathered so far.                      *)
(***************************************************************************)
C20_SingleCursorFrontier ==
    /\ Len(cursors) <= 1
    /\ pc[Kalshi] = "gather" => Len(tasks[Kalshi]) = 1 /\ cursors = <<>>
    /\ \A r \in requested[Kalshi] : r[2] = 1
    /\ \A r, q \in requested[Kalshi] : r[1] = q[1] => r = q
    /\ \A f \in failed[Kalshi] :
          /\ \A r \in requested[Kalshi] : r[1] <= f[1]
          /\ pc[Kalshi] = "gather" =>
                /\ WaveCursors(cursors, tasks[Kalshi]) = <<>>
                /\ ~ENABLED NextWave(Kalshi)
          /\ Done(Kalshi) => cursors = <<>>
          /\ pc[Kalshi] = "returned" =>
                ret[Kalshi] = ConcatPages(Kalshi,
                                  {d \in delivered[Kalshi] : d[1] < f[1]})

C20_Witness ==
    /\ pc[Kalshi] = "returned"
    /\ max_concurrent = MaxConcurrent
    /\ \E f \in failed[Kalshi] : f[1] = 2
    /\ ret[Kalshi] # <<>>
    /\ Len(ret[Kalshi]) < Total(Kalshi)

(***************************************************************************)
(* Vocabulary of the properties about utils.py.                            *)
(***************************************************************************)
Range(s) == {s[i] : i \in DOMAIN s}

\* how often row r occurs in the list s
Count(s, r) == Cardinality({i \in DOMAIN s : s[i] = r})

Zero == FInt(0)

One == FInt(1)

\* calculate_arbitrage_opportunities has been applied to similar_pairs
Scored == step \in {"scored", "reported"}

\* the two strategy costs, recomputed from the prices and fees of a row
Strat1Cost(row) ==
    FAdd(FAdd(row.kalshi_yes_price, row.kalshi_yes_fee), row.poly_no_price)

Strat2Cost(row) ==
    FAdd(FAdd(row.kalshi_no_price, row.kalshi_no_fee), row.poly_yes_price)

\* what a pair yields when it is scored alone
Alone(pair) == calculate_arbitrage_opportunities(<<pair>>).value

RECURSIVE ConcatAlone(_)
ConcatAlone(pairs) ==
    IF pairs = <<>> THEN <<>> ELSE Alone(Head(pairs)) \o ConcatAlone(Tail(pairs))

\* the fee of 100 contracts per contract, in 1/10000 units, in exact
\* arithmetic: ceil(0.07 * 100 * p * (1 - p) * 100) for p = cents / 100
ExactFeeUnits(cents) == (7 * cents * (100 - cents) + 99) \div 100

\* max(0, 1 - cost) in 1/10000 units, prices given in whole cents
ExactMargin(own, other) ==
    LET cost == 100 * own + ExactFeeUnits(own) + 100 * other
    IN  IF cost < 10000 THEN 10000 - cost ELSE 0

\* a price of a row, in whole cents
InCents(x) == TenThousandths(x) \div 100

(***************************************************************************)
(* C12 (SpecMatch).  find_similar_markets emits exactly the pairs (i, j)   *)
(* of the similarity matrix whose score is at or above the threshold, each *)
(* once and with its score: a score equal to the threshold is in, a lower  *)
(* one is out, and a market may appear in several pairs.                   *)
(***************************************************************************)
C12_MatchThreshold ==
    step = "matched" =>
        /\ {<<p[1], p[2]>> : p \in Range(similar_pairs)}
              = {ij \in (1..Len(similarities)) \X (1..MaxMarkets) :
                    /\ ij[2] <= Len(similarities[ij[1]])
                    /\ similarities[ij[1]][ij[2]] >= similarity_threshold}
        /\ \A a, b \in DOMAIN similar_pairs :
              a # b => <<similar_pairs[a][1], similar_pairs[a][2]>>
                          # <<similar_pairs[b][1], similar_pairs[b][2]>>
        /\ \A a \in DOMAIN similar_pairs :
              similar_pairs[a][3]
                  = similarities[similar_pairs[a][1]][similar_pairs[a][2]]

C12_Witness ==
    /\ step = "matched"
    /\ \E a, b \in DOMAIN similar_pairs :
          /\ a # b
          /\ similar_pairs[a][1] = similar_pairs[b][1]
          /\ similar_pairs[a][3] = similarity_threshold
    /\ \E i \in DOMAIN similarities : \E j \in DOMAIN similarities[i] :
          similarities[i][j] = similarity_threshold - 1

(***************************************************************************)
(* C13 (SpecArb).  Margin arithmetic in whole cents and 1/10000 units:     *)
(* each row's strategy-1 margin is max(0, 1 - (kalshiYes + fee(kalshiYes,  *)
(* 100)/100 + polyNo)), its strategy-2 margin likewise from kalshiNo and   *)
(* polyYes; and the example pair (yes_ask 40, no_ask 62, prices 0.55 and   *)
(* 0.45) yields one opportunity with margins 0.1332 and 0.                 *)
(***************************************************************************)
C13_MarginArithmetic ==
    Scored /\ opportunities.raised = "none" =>
        /\ \A row \in Range(opportunities.value) :
              /\ TenThousandths(row.kalshi_yes_poly_no_arb)
                    = ExactMargin(InCents(row.kalshi_yes_price),
                                  InCents(row.poly_no_price))
              /\ TenThousandths(row.kalshi_no_poly_yes_arb)
                    = ExactMargin(InCents(row.kalshi_no_price),
                                  InCents(row.poly_yes_price))
        /\ similar_pairs = <<<<KalshiGood, PolyGood>>>> =>
              /\ Len(opportunities.value) = 1
              /\ TenThousandths(opportunities.value[1].kalshi_yes_poly_no_arb) = 1332
              /\ FEqual(opportunities.value[1].kalshi_no_poly_yes_arb, Zero)

(***************************************************************************)
(* C14 (SpecArb).  Every opportunity returned has both margins >= 0 and at *)
(* least one margin > 0, and at least one of its two strategy costs is     *)
(* below 1.                                                                *)
(***************************************************************************)
C14_NonNegativeMargins ==
    Scored =>
        \A row \in Range(opportunities.value) :
            /\ ~FLess(row.kalshi_yes_poly_no_arb, Zero)
            /\ ~FLess(row.kalshi_no_poly_yes_arb, Zero)
            /\ \/ FLess(Zero, row.kalshi_yes_poly_no_arb)
               \/ FLess(Zero, row.kalshi_no_poly_yes_arb)
            /\ FLess(Strat1Cost(row), One) \/ FLess(Strat2Cost(row), One)

C14_Witness ==
    /\ step = "scored"
    /\ Len(similar_pairs) = 2
    /\ Len(opportunities.value) = 1
    /\ similar_pairs[1] = <<KalshiGood, [PolyGood EXCEPT !.outcomePrices = PriceArray(<<70, 70>>)]>>
    /\ FEqual(opportunities.value[1].kalshi_yes_poly_no_arb, Zero)
    /\ ~FLess(Strat1Cost(opportunities.value[1]), One)
    /\ FLess(Zero, opportunities.value[1].kalshi_no_poly_yes_arb)

(***************************************************************************)
(* C15 (SpecFee).  For every price p in whole cents and every contract     *)
(* count c, kalshi_fee(p, c) = kalshi_fee(1 - p, c), and                   *)
(* kalshi_fee(0.5, c) >= kalshi_fee(0.1, c).                               *)
(***************************************************************************)
C15_FeeSymmetricAndPeaked ==
    step = "fee_done" =>
        /\ FEqual(fee, kalshi_fee(Hundredths(Cents - price_cents), contracts))
        /\ ~FLess(kalshi_fee(Hundredths(50), contracts),
                  kalshi_fee(Hundredths(10), contracts))

(***************************************************************************)
(* C16 (SpecArb).  Per-pair error containment: the call raises nothing,    *)
(* its output is the in-order concatenation of what each pair yields when  *)
(* scored alone, and a pair lacking an expiration on either side, or whose *)
(* outcomePrices is absent or does not parse to two prices, yields nothing.*)
(***************************************************************************)
C16_PairErrorsContained ==
    Scored =>
        /\ opportunities.raised = "none"
        /\ opportunities.value = ConcatAlone(similar_pairs)
        /\ \A i \in DOMAIN similar_pairs :
              (\/ ~Has(similar_pairs[i][1], "expiration_time")
               \/ ~Has(similar_pairs[i][2], "endDate")
               \/ ~Has(similar_pairs[i][2], "outcomePrices")
               \/ similar_pairs[i][2].outcomePrices.json # "array"
               \/ Len(similar_pairs[i][2].outcomePrices.items) < 2)
                  => Alone(similar_pairs[i]) = <<>>

(***************************************************************************)
(* C17 (SpecArb).  A pair whose Kalshi record has no yes_ask or no no_ask  *)
(* yields no opportunity: a batch made only of such pairs returns nothing. *)
(***************************************************************************)
C17_MissingPriceSkipped ==
    (/\ Scored
     /\ \A i \in DOMAIN similar_pairs :
           \/ ~Has(similar_pairs[i][1], "yes_ask")
           \/ ~Has(similar_pairs[i][1], "no_ask"))
        => opportunities.value = <<>>

(***************************************************************************)
(* C18 (SpecArb).  The rows of the report are a permutation of the         *)
(* opportunities, and of two adjacent rows the earlier one has the smaller *)
(* or equal expiration; on equal expiration the greater or equal           *)
(* strategy-1 margin; on both equal the greater or equal strategy-2 margin.*)
(***************************************************************************)
C18_ReportOrdering ==
    step = "reported" =>
        /\ Len(report) = Len(opportunities.value)
        /\ \A row \in Range(opportunities.value) \cup Range(report) :
              Count(report, row) = Count(opportunities.value, row)
        /\ \A i \in 1..(Len(report) - 1) :
              LET a == report[i]
                  b == report[i + 1]
              IN  /\ a.expiration_date <= b.expiration_date
                  /\ a.expiration_date = b.expiration_date =>
                        ~FLess(a.kalshi_yes_poly_no_arb, b.kalshi_yes_poly_no_arb)
                  /\ (/\ a.expiration_date = b.expiration_date
                      /\ FEqual(a.kalshi_yes_poly_no_arb, b.kalshi_yes_poly_no_arb))
                        => ~FLess(a.kalshi_no_poly_yes_arb, b.kalshi_no_poly_yes_arb)

C18_Witness ==
    /\ step = "reported"
    /\ Len(report) = 2
    /\ report # opportunities.value
    /\ report[1].expiration_date = report[2].expiration_date
    /\ FEqual(report[1].kalshi_yes_poly_no_arb, report[2].kalshi_yes_poly_no_arb)
    /\ FLess(report[2].kalshi_no_poly_yes_arb, report[1].kalshi_no_poly_yes_arb)

(***************************************************************************)
(* C21 (SpecRun).  Polymarket offsets: the i-th request of wave w carries  *)
(* the offset ((w - 1) * max_concurrent + i - 1) * limit, so no offset is  *)
(* requested twice, an offset whose fetch failed is not requested again,   *)
(* and a run that ended after k waves has requested exactly the offsets    *)
(* 0, limit, ..., (k * max_concurrent - 1) * limit.                        *)
(***************************************************************************)
C21_OffsetsOnce ==
    /\ \A r \in requested[Polymarket] :
          r[3] = ((r[1] - 1) * max_concurrent + r[2] - 1) * Limit
    /\ Cardinality(Args(requested[Polymarket]))
          = Cardinality(requested[Polymarket])
    /\ \A f \in failed[Polymarket] : \A r \in requested[Polymarket] :
          r[3] = f[3] => r = f
    /\ Done(Polymarket) =>
          Args(requested[Polymarket])
             = {i * Limit : i \in 0..(wave[Polymarket] * max_concurrent - 1)}

C21_Witness ==
    /\ pc[Polymarket] = "returned"
    /\ max_concurrent = MaxConcurrent
    /\ wave[Polymarket] = 2
    /\ \E f \in failed[Polymarket] : f[1] = 1
    /\ \E d \in delivered[Polymarket] : d[1] = 2
    /\ Cardinality(requested[Polymarket]) = 2 * max_concurrent

\* every record of the list a is in the list b, in the same relative order
RECURSIVE IsSubsequence(_, _)
IsSubsequence(a, b) ==
    IF a = <<>> THEN TRUE
    ELSE IF b = <<>> THEN FALSE
    ELSE IF Head(a) = Head(b) THEN IsSubsequence(Tail(a), Tail(b))
    ELSE IsSubsequence(a, Tail(b))

(***************************************************************************)
(* C22 (SpecRun).  Snapshot monotonicity: no step of a run removes,        *)
(* changes or reorders a record of the venue's snapshot file, and a run    *)
(* that returns no record has not written the file.                        *)
(***************************************************************************)
C22_SnapshotMonotone ==
    [][\A v \in Venues :
          /\ IsSubsequence(disk[v], disk'[v])
          /\ (pc'[v] = "returned" /\ ret'[v] = <<>>)
                => (disk'[v] = disk[v] /\ wrote'[v] = "none" /\ saves'[v] = <<>>)]_vars

=============================================================================
